---- MODULE Spec2Model ----
(***************************************************************************)
(* Model of src/bank_of_joe.py: the Account entity (daily withdrawal limit  *)
(* with rollover at a change of calendar day) and the Bank registry         *)
(* (account numbering, opening, closing).                                   *)
(*                                                                          *)
(* Money is modelled by integers.  The program stores Python floats; every  *)
(* amount, limit and balance of the model is a small integer and every rate *)
(* a multiple of 100, for which the float arithmetic of the program is      *)
(* exact.  NaN and the infinities are outside the modelled input domain.    *)
(* A calendar date is modelled by its day number; the ambient clock         *)
(* date.today() is the variable today, which only moves forward.            *)
(* The program raises ValueError / KeyError with a message; the model      *)
(* names each raise site by the error kind the specification gives it.      *)
(***************************************************************************)
EXTENDS Integers, Sequences, FiniteSets, TLC

\* ---- bounds of the model ----
\* the largest daily limit an account is opened with
MaxLimit == 1
\* the last calendar day the clock reaches (days are 0 .. MaxDay)
MaxDay == 1
\* how many account numbers the bank issues
MaxAccounts == 2
\* how many accounts are registered at the same time
MaxOpen == 1

\* amounts, balances and the day's withdrawals go one past the largest limit,
\* so that every rejection of withdraw happens
MaxAmount == MaxLimit + 1
MaxBalance == MaxLimit + 1
MaxWithdrawn == MaxLimit + 1

\* ---- program constant ----
StartingNumber == 1001

Amounts == 0 .. MaxAmount
Limits == {-1, 0} \cup {MaxLimit}
InitialDeposits == {-1, 0} \cup {MaxBalance}
Rates == {-100, 0, 100}
Owners == { <<>>, <<" ">>, <<" ", "J", " ">> }
\* the arguments of open_account: every valid combination, and one call for
\* each precondition violated (alone, and all three at once)
OpenInputs ==
    { <<o, d, l>> \in Owners \X InitialDeposits \X Limits :
        \/ (o = <<" ", "J", " ">> /\ d >= 0 /\ l >= 0)
        \/ (o = <<" ">> /\ d = 0 /\ l = 0)
        \/ (o = <<" ", "J", " ">> /\ d < 0 /\ l = 0)
        \/ (o = <<" ", "J", " ">> /\ d = 0 /\ l < 0)
        \/ (o = <<>> /\ d < 0 /\ l < 0) }
Numbers == StartingNumber .. (StartingNumber + MaxAccounts)
\* the first two numbers a bank issues: the accounts of the specifications
\* about a pair of accounts registered together
PairNumbers == {StartingNumber, StartingNumber + 1}

\* accounts, next: Bank._accounts and Bank._next; today: the ambient clock;
\* listed: the mapping the last list_accounts call returned, as its caller
\* holds it now.  The other variables record history: lastOp the call just
\* made, issued the numbers returned by open_account in call order, ever the
\* numbers registered so far, dayTotal the amount each account has withdrawn
\* on the current calendar day, ledger the deposits plus the interest minus
\* the withdrawals of each account.  to_print is the position of screen_list:
\* the numbers of the accounts its loop has still to print (empty when no
\* listing is on the screen).
VARIABLES accounts, next, today, lastOp, issued, ever, dayTotal, listed, ledger,
          to_print

vars == <<accounts, next, today, lastOp, issued, ever, dayTotal, listed, ledger,
          to_print>>

\* ---- Account ----

Account(number, owner, balance, daily_limit, last_withdraw_date, withdrawn_today) ==
    [number |-> number, owner |-> owner, balance |-> balance,
     daily_limit |-> daily_limit, last_withdraw_date |-> last_withdraw_date,
     withdrawn_today |-> withdrawn_today]

NoAccount == Account(0, <<>>, 0, 0, 0, 0)

\* mutant: the counter is reset on every call, not only on a new day
rollover_always(self, tdy) ==
    [self EXCEPT !.last_withdraw_date = tdy, !.withdrawn_today = 0]

\* mutant: the date is moved to today but the counter is kept
rollover_keep_counter(self, tdy) ==
    IF self.last_withdraw_date # tdy
    THEN [self EXCEPT !.last_withdraw_date = tdy]
    ELSE self

_rollover_if_new_day(self, tdy) ==
    IF self.last_withdraw_date # tdy
    THEN [self EXCEPT !.last_withdraw_date = tdy, !.withdrawn_today = 0]
    ELSE self

\* mutant: a deposit also resets the day's withdrawal counter
deposit_resets_counter(self, amount) ==
    IF amount <= 0
    THEN [acc |-> self, err |-> "InvalidAmount"]
    ELSE [acc |-> [self EXCEPT !.balance = self.balance + amount,
                               !.withdrawn_today = 0],
          err |-> "ok"]

deposit(self, amount) ==
    IF amount <= 0
    THEN [acc |-> self, err |-> "InvalidAmount"]
    ELSE [acc |-> [self EXCEPT !.balance = self.balance + amount], err |-> "ok"]

\* mutant: the insufficient-funds check is missing
withdraw_no_funds_check(self, amount, tdy) ==
    IF amount <= 0
    THEN [acc |-> self, err |-> "InvalidAmount", carry |-> 0]
    ELSE LET r == _rollover_if_new_day(self, tdy)
             remaining == r.daily_limit - r.withdrawn_today
         IN IF r.daily_limit > 0 /\ amount > remaining
            THEN [acc |-> r, err |-> "DailyLimitExceeded", carry |-> remaining]
            ELSE [acc |-> [r EXCEPT !.balance = r.balance - amount,
                                    !.withdrawn_today = r.withdrawn_today + amount],
                  err |-> "ok", carry |-> 0]

\* mutant: the daily-limit check compares with the limit, not with what remains
withdraw_limit_per_call(self, amount, tdy) ==
    IF amount <= 0
    THEN [acc |-> self, err |-> "InvalidAmount", carry |-> 0]
    ELSE LET r == _rollover_if_new_day(self, tdy)
             remaining == r.daily_limit - r.withdrawn_today
         IN IF amount > r.balance
            THEN [acc |-> r, err |-> "InsufficientFunds", carry |-> r.balance]
            ELSE IF r.daily_limit > 0 /\ amount > r.daily_limit
            THEN [acc |-> r, err |-> "DailyLimitExceeded", carry |-> remaining]
            ELSE [acc |-> [r EXCEPT !.balance = r.balance - amount,
                                    !.withdrawn_today = r.withdrawn_today + amount],
                  err |-> "ok", carry |-> 0]

\* mutant: the balance is debited before the daily-limit check
withdraw_early_debit(self, amount, tdy) ==
    IF amount <= 0
    THEN [acc |-> self, err |-> "InvalidAmount", carry |-> 0]
    ELSE LET r == _rollover_if_new_day(self, tdy)
             remaining == r.daily_limit - r.withdrawn_today
         IN IF amount > r.balance
            THEN [acc |-> r, err |-> "InsufficientFunds", carry |-> r.balance]
            ELSE IF r.daily_limit > 0 /\ amount > remaining
            THEN [acc |-> [r EXCEPT !.balance = r.balance - amount],
                  err |-> "DailyLimitExceeded", carry |-> remaining]
            ELSE [acc |-> [r EXCEPT !.balance = r.balance - amount,
                                    !.withdrawn_today = r.withdrawn_today + amount],
                  err |-> "ok", carry |-> 0]

\* mutant: the rollover runs after the insufficient-funds check
withdraw_late_rollover(self, amount, tdy) ==
    IF amount <= 0
    THEN [acc |-> self, err |-> "InvalidAmount", carry |-> 0]
    ELSE IF amount > self.balance
    THEN [acc |-> self, err |-> "InsufficientFunds", carry |-> self.balance]
    ELSE LET r == _rollover_if_new_day(self, tdy)
             remaining == r.daily_limit - r.withdrawn_today
         IN IF r.daily_limit > 0 /\ amount > remaining
            THEN [acc |-> r, err |-> "DailyLimitExceeded", carry |-> remaining]
            ELSE [acc |-> [r EXCEPT !.balance = r.balance - amount,
                                    !.withdrawn_today = r.withdrawn_today + amount],
                  err |-> "ok", carry |-> 0]

\* mutant: the daily-limit check runs before the insufficient-funds check
withdraw_limit_first(self, amount, tdy) ==
    IF amount <= 0
    THEN [acc |-> self, err |-> "InvalidAmount", carry |-> 0]
    ELSE LET r == _rollover_if_new_day(self, tdy)
             remaining == r.daily_limit - r.withdrawn_today
         IN IF r.daily_limit > 0 /\ amount > remaining
            THEN [acc |-> r, err |-> "DailyLimitExceeded", carry |-> remaining]
            ELSE IF amount > r.balance
            THEN [acc |-> r, err |-> "InsufficientFunds", carry |-> r.balance]
            ELSE [acc |-> [r EXCEPT !.balance = r.balance - amount,
                                    !.withdrawn_today = r.withdrawn_today + amount],
                  err |-> "ok", carry |-> 0]

\* mutant: what remains is computed from the counter as it was before the
\* rollover
withdraw_stale_remaining(self, amount, tdy) ==
    IF amount <= 0
    THEN [acc |-> self, err |-> "InvalidAmount", carry |-> 0]
    ELSE LET r == _rollover_if_new_day(self, tdy)
             remaining == self.daily_limit - self.withdrawn_today
         IN IF amount > r.balance
            THEN [acc |-> r, err |-> "InsufficientFunds", carry |-> r.balance]
            ELSE IF r.daily_limit > 0 /\ amount > remaining
            THEN [acc |-> r, err |-> "DailyLimitExceeded", carry |-> remaining]
            ELSE [acc |-> [r EXCEPT !.balance = r.balance - amount,
                                    !.withdrawn_today = r.withdrawn_today + amount],
                  err |-> "ok", carry |-> 0]

\* Account.withdraw: the account as the call leaves it (also when it raises),
\* the error kind, and the value the error message carries.
withdraw(self, amount, tdy) ==
    IF amount <= 0
    THEN [acc |-> self, err |-> "InvalidAmount", carry |-> 0]
    ELSE LET r == _rollover_if_new_day(self, tdy)
             remaining == r.daily_limit - r.withdrawn_today
         IN IF amount > r.balance
            THEN [acc |-> r, err |-> "InsufficientFunds", carry |-> r.balance]
            ELSE IF r.daily_limit > 0 /\ amount > remaining
            THEN [acc |-> r, err |-> "DailyLimitExceeded", carry |-> remaining]
            ELSE [acc |-> [r EXCEPT !.balance = r.balance - amount,
                                    !.withdrawn_today = r.withdrawn_today + amount],
                  err |-> "ok", carry |-> 0]

\* mutant: the interest is computed and returned but not credited
apply_interest_not_credited(self, rate_percent) ==
    IF rate_percent < 0
    THEN [acc |-> self, err |-> "InvalidRate", ret |-> 0]
    ELSE [acc |-> self, err |-> "ok", ret |-> (self.balance * rate_percent) \div 100]

\* mutant: the new balance is returned instead of the interest
apply_interest_returns_balance(self, rate_percent) ==
    IF rate_percent < 0
    THEN [acc |-> self, err |-> "InvalidRate", ret |-> 0]
    ELSE LET interest == (self.balance * rate_percent) \div 100
         IN [acc |-> [self EXCEPT !.balance = self.balance + interest],
             err |-> "ok", ret |-> self.balance + interest]

\* balance * (rate_percent / 100.0) is exact for the balances and rates of the
\* model: ApplyInterest takes only rates for which balance * rate_percent is a
\* multiple of 100
apply_interest(self, rate_percent) ==
    IF rate_percent < 0
    THEN [acc |-> self, err |-> "InvalidRate", ret |-> 0]
    ELSE LET interest == (self.balance * rate_percent) \div 100
         IN [acc |-> [self EXCEPT !.balance = self.balance + interest],
             err |-> "ok", ret |-> interest]

NoLimit == -1

\* mutant: the summary is produced without the rollover
str_no_rollover(self, tdy) ==
    [acc |-> self,
     lim |-> IF self.daily_limit > 0 THEN self.daily_limit ELSE NoLimit,
     rem |-> IF self.daily_limit > 0
             THEN self.daily_limit - self.withdrawn_today ELSE NoLimit]

\* Account.__str__: the account after the call and the figures of the summary
\* (NoLimit stands for the texts "No limit" and the dash)
str(self, tdy) ==
    LET r == _rollover_if_new_day(self, tdy)
    IN [acc |-> r,
        lim |-> IF r.daily_limit > 0 THEN r.daily_limit ELSE NoLimit,
        rem |-> IF r.daily_limit > 0
                THEN r.daily_limit - r.withdrawn_today ELSE NoLimit]

\* ---- Bank ----

RECURSIVE lstrip(_)
lstrip(s) == IF s # <<>> /\ Head(s) = " " THEN lstrip(Tail(s)) ELSE s

RECURSIVE rstrip(_)
rstrip(s) == IF s # <<>> /\ s[Len(s)] = " "
             THEN rstrip(SubSeq(s, 1, Len(s) - 1)) ELSE s

strip(s) == rstrip(lstrip(s))

put(accts, number, acc) ==
    [n \in (DOMAIN accts) \cup {number} |-> IF n = number THEN acc ELSE accts[n]]

remove(accts, number) ==
    [n \in (DOMAIN accts) \ {number} |-> accts[n]]

\* mutant: the counter advances only when an initial deposit is made
open_account_no_increment(accts, nxt, owner, initial_deposit, daily_limit, tdy) ==
    IF strip(owner) = <<>>
    THEN [accounts |-> accts, next |-> nxt, err |-> "InvalidOwner", ret |-> NoAccount]
    ELSE IF initial_deposit < 0
    THEN [accounts |-> accts, next |-> nxt, err |-> "InvalidAmount", ret |-> NoAccount]
    ELSE IF daily_limit < 0
    THEN [accounts |-> accts, next |-> nxt, err |-> "InvalidLimit", ret |-> NoAccount]
    ELSE LET acc0 == Account(nxt, strip(owner), 0, daily_limit, tdy, 0)
             acc == IF initial_deposit > 0 THEN deposit(acc0, initial_deposit).acc ELSE acc0
         IN [accounts |-> put(accts, nxt, acc),
             next |-> IF initial_deposit > 0 THEN nxt + 1 ELSE nxt,
             err |-> "ok", ret |-> acc]

\* mutant: the counter is never advanced
open_account_no_advance(accts, nxt, owner, initial_deposit, daily_limit, tdy) ==
    IF strip(owner) = <<>>
    THEN [accounts |-> accts, next |-> nxt, err |-> "InvalidOwner", ret |-> NoAccount]
    ELSE IF initial_deposit < 0
    THEN [accounts |-> accts, next |-> nxt, err |-> "InvalidAmount", ret |-> NoAccount]
    ELSE IF daily_limit < 0
    THEN [accounts |-> accts, next |-> nxt, err |-> "InvalidLimit", ret |-> NoAccount]
    ELSE LET acc0 == Account(nxt, strip(owner), 0, daily_limit, tdy, 0)
             acc == IF initial_deposit > 0 THEN deposit(acc0, initial_deposit).acc ELSE acc0
         IN [accounts |-> put(accts, nxt, acc), next |-> nxt, err |-> "ok", ret |-> acc]

\* mutant: the number is allocated before the daily limit is validated
open_account_early_alloc(accts, nxt, owner, initial_deposit, daily_limit, tdy) ==
    IF strip(owner) = <<>>
    THEN [accounts |-> accts, next |-> nxt, err |-> "InvalidOwner", ret |-> NoAccount]
    ELSE IF initial_deposit < 0
    THEN [accounts |-> accts, next |-> nxt, err |-> "InvalidAmount", ret |-> NoAccount]
    ELSE IF daily_limit < 0
    THEN [accounts |-> accts, next |-> nxt + 1, err |-> "InvalidLimit", ret |-> NoAccount]
    ELSE LET acc0 == Account(nxt, strip(owner), 0, daily_limit, tdy, 0)
             acc == IF initial_deposit > 0 THEN deposit(acc0, initial_deposit).acc ELSE acc0
         IN [accounts |-> put(accts, nxt, acc), next |-> nxt + 1,
             err |-> "ok", ret |-> acc]

\* mutant: the initial deposit is not credited
open_account_no_deposit(accts, nxt, owner, initial_deposit, daily_limit, tdy) ==
    IF strip(owner) = <<>>
    THEN [accounts |-> accts, next |-> nxt, err |-> "InvalidOwner", ret |-> NoAccount]
    ELSE IF initial_deposit < 0
    THEN [accounts |-> accts, next |-> nxt, err |-> "InvalidAmount", ret |-> NoAccount]
    ELSE IF daily_limit < 0
    THEN [accounts |-> accts, next |-> nxt, err |-> "InvalidLimit", ret |-> NoAccount]
    ELSE LET acc == Account(nxt, strip(owner), 0, daily_limit, tdy, 0)
         IN [accounts |-> put(accts, nxt, acc), next |-> nxt + 1,
             err |-> "ok", ret |-> acc]

\* Bank.open_account: the registry and the counter as the call leaves them,
\* the error kind, and the account returned
open_account(accts, nxt, owner, initial_deposit, daily_limit, tdy) ==
    IF strip(owner) = <<>>
    THEN [accounts |-> accts, next |-> nxt, err |-> "InvalidOwner", ret |-> NoAccount]
    ELSE IF initial_deposit < 0
    THEN [accounts |-> accts, next |-> nxt, err |-> "InvalidAmount", ret |-> NoAccount]
    ELSE IF daily_limit < 0
    THEN [accounts |-> accts, next |-> nxt, err |-> "InvalidLimit", ret |-> NoAccount]
    ELSE LET acc0 == Account(nxt, strip(owner), 0, daily_limit, tdy, 0)
             dep == IF initial_deposit > 0
                    THEN deposit(acc0, initial_deposit)
                    ELSE [acc |-> acc0, err |-> "ok"]
         IN IF dep.err # "ok"
            THEN [accounts |-> accts, next |-> nxt + 1, err |-> dep.err, ret |-> NoAccount]
            ELSE [accounts |-> put(accts, nxt, dep.acc), next |-> nxt + 1,
                  err |-> "ok", ret |-> dep.acc]

\* mutant: a balance of one unit is let through as if it were zero
close_account_tolerant(accts, number) ==
    IF number \notin DOMAIN accts
    THEN [accounts |-> accts, err |-> "AccountNotFound", ret |-> NoAccount]
    ELSE IF accts[number].balance > 1
    THEN [accounts |-> accts, err |-> "NonZeroBalance", ret |-> NoAccount]
    ELSE [accounts |-> remove(accts, number), err |-> "ok", ret |-> accts[number]]

close_account(accts, number) ==
    IF number \notin DOMAIN accts
    THEN [accounts |-> accts, err |-> "AccountNotFound", ret |-> NoAccount]
    ELSE IF accts[number].balance # 0
    THEN [accounts |-> accts, err |-> "NonZeroBalance", ret |-> NoAccount]
    ELSE [accounts |-> remove(accts, number), err |-> "ok", ret |-> accts[number]]

get(accts, number) ==
    IF number \in DOMAIN accts THEN accts[number] ELSE NoAccount

\* A mapping held by a caller of list_accounts.  ref tells which dict object
\* it is: "copy" a dict of its own, whose entries are map (key |-> the number
\* of the Account object the entry refers to); "registry" the bank's own
\* _accounts; "none" before the first call.
NotListed == [ref |-> "none", map |-> << >>]

\* mutant: the registry itself is returned
list_accounts_live(accts) == [ref |-> "registry", map |-> << >>]

\* Bank.list_accounts: dict(self._accounts) is a new dict with the same keys,
\* each referring to the same Account object as the registry
list_accounts(accts) == [ref |-> "copy", map |-> [n \in DOMAIN accts |-> n]]

\* ---- state machine ----

\* lastOp: the call just made, its arguments and its outcome; new_day tells
\* that the call was made on a day other than the account's last_withdraw_date
\* and prev_withdrawn is the account's withdrawn_today before the call
Op(op, number, arg, result, carry, new_day, prev_withdrawn) ==
    [op |-> op, number |-> number, arg |-> arg, result |-> result,
     carry |-> carry, new_day |-> new_day, prev_withdrawn |-> prev_withdrawn]

new_day(self, tdy) == self.last_withdraw_date # tdy

\* mutant: the day's counter and its date are one value shared by all the
\* accounts (a class attribute), so a call on one account sets them for all
set_account_shared_counter(accts, number, acc) ==
    [n \in DOMAIN accts |->
        IF n = number THEN acc
        ELSE [accts[n] EXCEPT !.withdrawn_today = acc.withdrawn_today,
                              !.last_withdraw_date = acc.last_withdraw_date]]

\* acc = bank.get(number) is the registered object itself: a method called on
\* it changes the registry's entry for number, in place, and no other entry
set_account(accts, number, acc) == [accts EXCEPT ![number] = acc]

\* main_menu runs one screen at a time: no other call is made while
\* screen_list is printing
idle == to_print = {}

Init ==
    /\ accounts = << >>
    /\ next = StartingNumber
    /\ today = 0
    /\ lastOp = Op("init", 0, 0, "ok", 0, FALSE, 0)
    /\ issued = << >>
    /\ ever = {}
    /\ dayTotal = << >>
    /\ listed = NotListed
    /\ ledger = << >>
    /\ to_print = {}

\* bank.open_account(owner, initial, limit), the call of screen_open_account
\* (main_menu choice 1)
OpenAccount(owner, initial_deposit, daily_limit) ==
    /\ idle
    /\ next < StartingNumber + MaxAccounts
    /\ Cardinality(DOMAIN accounts) < MaxOpen
    /\ LET r == open_account(accounts, next, owner, initial_deposit, daily_limit, today)
       IN /\ accounts' = r.accounts
          /\ next' = r.next
          /\ lastOp' = Op("open_account", r.ret.number, initial_deposit, r.err,
                          daily_limit, FALSE, 0)
          /\ issued' = IF r.err = "ok" THEN Append(issued, r.ret.number) ELSE issued
          /\ ever' = ever \cup DOMAIN r.accounts
          /\ dayTotal' = [n \in DOMAIN r.accounts |->
                            IF n \in DOMAIN dayTotal THEN dayTotal[n] ELSE 0]
          /\ ledger' = [n \in DOMAIN r.accounts |->
                            IF n \in DOMAIN ledger THEN ledger[n] ELSE initial_deposit]
    /\ UNCHANGED <<today, listed, to_print>>

\* bank.close_account(number), the call of screen_close_account (choice 2)
CloseAccount(number) ==
    /\ idle
    /\ LET r == close_account(accounts, number)
       IN /\ accounts' = r.accounts
          /\ lastOp' = Op("close_account", number, 0, r.err, 0, FALSE, 0)
          /\ dayTotal' = [n \in DOMAIN r.accounts |-> dayTotal[n]]
          /\ ledger' = [n \in DOMAIN r.accounts |-> ledger[n]]
    /\ UNCHANGED <<next, today, issued, ever, listed, to_print>>

\* acc.deposit(amount) on a registered account, the call of screen_deposit
\* (choice 3); the summary a screen prints next to a call is Render
Deposit(number, amount) ==
    /\ idle
    /\ number \in DOMAIN accounts
    /\ LET r == deposit(accounts[number], amount)
       IN /\ r.acc.balance <= MaxBalance
          /\ accounts' = set_account(accounts, number, r.acc)
          /\ lastOp' = Op("deposit", number, amount, r.err, 0,
                          new_day(accounts[number], today),
                          accounts[number].withdrawn_today)
          /\ ledger' = IF r.err = "ok"
                       THEN [ledger EXCEPT ![number] = @ + amount] ELSE ledger
    /\ UNCHANGED <<next, today, issued, ever, dayTotal, listed, to_print>>

\* acc.withdraw(amount) on a registered account, the call of screen_withdraw
\* (choice 4)
Withdraw(number, amount) ==
    /\ idle
    /\ number \in DOMAIN accounts
    /\ LET r == withdraw(accounts[number], amount, today)
           total == IF r.err = "ok" THEN dayTotal[number] + amount
                    ELSE dayTotal[number]
       IN /\ r.acc.withdrawn_today <= MaxWithdrawn
          /\ total <= MaxWithdrawn
          /\ accounts' = set_account(accounts, number, r.acc)
          /\ lastOp' = Op("withdraw", number, amount, r.err, r.carry,
                          new_day(accounts[number], today),
                          accounts[number].withdrawn_today)
          /\ dayTotal' = [dayTotal EXCEPT ![number] = total]
          /\ ledger' = IF r.err = "ok"
                       THEN [ledger EXCEPT ![number] = @ - amount] ELSE ledger
    /\ UNCHANGED <<next, today, issued, ever, listed, to_print>>

\* acc.apply_interest(rate) on a registered account, the call of
\* screen_interest (choice 5)
ApplyInterest(number, rate_percent) ==
    /\ idle
    /\ number \in DOMAIN accounts
    /\ LET r == apply_interest(accounts[number], rate_percent)
       IN /\ (accounts[number].balance * rate_percent) % 100 = 0
          /\ r.acc.balance <= MaxBalance
          /\ accounts' = set_account(accounts, number, r.acc)
          /\ lastOp' = Op("apply_interest", number, rate_percent, r.err, r.ret,
                          new_day(accounts[number], today),
                          accounts[number].withdrawn_today)
          /\ ledger' = IF r.err = "ok"
                       THEN [ledger EXCEPT ![number] = @ + r.ret] ELSE ledger
    /\ UNCHANGED <<next, today, issued, ever, dayTotal, listed, to_print>>

\* print(acc) on a registered account, which calls Account.__str__:
\* screen_lookup (choice 6) and show_account
Render(number) ==
    /\ idle
    /\ number \in DOMAIN accounts
    /\ LET r == str(accounts[number], today)
       IN /\ accounts' = set_account(accounts, number, r.acc)
          /\ lastOp' = Op("render", number, 0, "ok", r.rem,
                          new_day(accounts[number], today),
                          accounts[number].withdrawn_today)
    /\ UNCHANGED <<next, today, issued, ever, dayTotal, listed, ledger, to_print>>

\* the calendar day changes: date.today() returns the next day from now on
Tick ==
    /\ today < MaxDay
    /\ today' = today + 1
    /\ lastOp' = Op("tick", 0, 0, "ok", 0, FALSE, 0)
    /\ dayTotal' = [n \in DOMAIN dayTotal |-> 0]
    /\ UNCHANGED <<accounts, next, issued, ever, listed, ledger, to_print>>

Next ==
    \/ \E i \in OpenInputs : OpenAccount(i[1], i[2], i[3])
    \/ \E n \in Numbers : CloseAccount(n)
    \/ \E n \in Numbers, a \in Amounts : Deposit(n, a)
    \/ \E n \in Numbers, a \in Amounts : Withdraw(n, a)
    \/ \E n \in Numbers, r \in Rates : ApplyInterest(n, r)
    \/ \E n \in Numbers : Render(n)
    \/ Tick

Spec == Init /\ [][Next]_vars

\* ---- a bank with two accounts registered together ----

\* bank.open_account(owner, initial, limit) while the bank is issuing its
\* first two numbers
OpenAccountPair(owner, initial_deposit, daily_limit) ==
    /\ idle
    /\ next \in PairNumbers
    /\ LET r == open_account(accounts, next, owner, initial_deposit, daily_limit, today)
       IN /\ accounts' = r.accounts
          /\ next' = r.next
          /\ lastOp' = Op("open_account", r.ret.number, initial_deposit, r.err,
                          daily_limit, FALSE, 0)
          /\ issued' = IF r.err = "ok" THEN Append(issued, r.ret.number) ELSE issued
          /\ ever' = ever \cup DOMAIN r.accounts
          /\ dayTotal' = [n \in DOMAIN r.accounts |->
                            IF n \in DOMAIN dayTotal THEN dayTotal[n] ELSE 0]
          /\ ledger' = [n \in DOMAIN r.accounts |->
                            IF n \in DOMAIN ledger THEN ledger[n] ELSE initial_deposit]
    /\ UNCHANGED <<today, listed, to_print>>

NextPair ==
    \/ \E i \in OpenInputs : OpenAccountPair(i[1], i[2], i[3])
    \/ \E n \in Numbers : CloseAccount(n)
    \/ \E n \in Numbers, a \in Amounts : Deposit(n, a)
    \/ \E n \in Numbers, a \in Amounts : Withdraw(n, a)
    \/ \E n \in Numbers, r \in Rates : ApplyInterest(n, r)
    \/ \E n \in Numbers : Render(n)
    \/ Tick

SpecPair == Init /\ [][NextPair]_vars

\* ---- a caller of list_accounts that changes the mapping it got ----

\* the keys of the mapping the caller holds, as they are now
listed_keys == IF listed.ref = "registry" THEN DOMAIN accounts ELSE DOMAIN listed.map

\* a caller of the Bank keeps the result of a call: accts = bank.list_accounts().
\* The call itself touches no account.
ListAccounts ==
    /\ idle
    /\ listed' = list_accounts(accounts)
    /\ lastOp' = Op("list_accounts", 0, 0, "ok", 0, FALSE, 0)
    /\ UNCHANGED <<accounts, next, today, issued, ever, dayTotal, ledger, to_print>>

\* the caller runs `del accts[key]` on the mapping it holds: the dict object
\* that listed.ref names loses the entry
ListedDel(key) ==
    /\ idle
    /\ listed.ref # "none"
    /\ key \in listed_keys
    /\ lastOp' = Op("listed_del", key, 0, "ok", 0, FALSE, 0)
    /\ IF listed.ref = "registry"
       THEN /\ accounts' = remove(accounts, key)
            /\ dayTotal' = [n \in DOMAIN accounts \ {key} |-> 0]
            /\ ledger' = [n \in DOMAIN accounts \ {key} |-> accounts[n].balance]
            /\ UNCHANGED listed
       ELSE /\ listed' = [listed EXCEPT !.map = remove(listed.map, key)]
            /\ UNCHANGED <<accounts, dayTotal, ledger>>
    /\ UNCHANGED <<next, today, issued, ever, to_print>>

\* the caller runs `accts[key] = acc` with an account of the bank under a key
\* of its own: the dict object that listed.ref names gains the entry
ListedPut(key, number) ==
    /\ idle
    /\ listed.ref # "none"
    /\ number \in DOMAIN accounts
    /\ key \notin listed_keys
    /\ lastOp' = Op("listed_put", key, number, "ok", 0, FALSE, 0)
    /\ IF listed.ref = "registry"
       THEN /\ accounts' = put(accounts, key, accounts[number])
            /\ dayTotal' = [n \in DOMAIN accounts \cup {key} |-> 0]
            /\ ledger' = [n \in DOMAIN accounts \cup {key} |->
                             IF n = key THEN accounts[number].balance
                             ELSE accounts[n].balance]
            /\ UNCHANGED listed
       ELSE /\ listed' = [listed EXCEPT !.map = put(listed.map, key, number)]
            /\ UNCHANGED <<accounts, dayTotal, ledger>>
    /\ UNCHANGED <<next, today, issued, ever, to_print>>

\* the numbers of the Account objects a mapping returned by list_accounts
\* refers to (accts.values())
listed_values(l, accts) ==
    IF l.ref = "registry" THEN DOMAIN accts
    ELSE { l.map[k] : k \in DOMAIN l.map }

\* main_menu choice 7, screen_list, up to its loop:
\* accts = bank.list_accounts(); with no account it prints "No accounts yet."
\* and is over, otherwise every account of accts.values() is to be printed.
\* The mapping is a local of the screen.
screen_list ==
    /\ idle
    /\ to_print' = listed_values(list_accounts(accounts), accounts)
    /\ lastOp' = Op("screen_list", 0, 0, "ok", 0, FALSE, 0)
    /\ UNCHANGED <<accounts, next, today, issued, ever, dayTotal, listed, ledger>>

\* the account the loop of screen_list prints next: a dict keeps its keys in
\* insertion order, and the bank inserts in increasing order of number
next_to_print == CHOOSE n \in to_print : \A m \in to_print : n <= m

\* one turn of the loop of screen_list: print(acc) calls Account.__str__,
\* which reads date.today() and performs the rollover on that account.  The
\* calendar day may change between two turns.
screen_list_print ==
    /\ to_print # {}
    /\ LET number == next_to_print
           r == str(accounts[number], today)
       IN /\ accounts' = set_account(accounts, number, r.acc)
          /\ lastOp' = Op("render", number, 0, "ok", r.rem,
                          new_day(accounts[number], today),
                          accounts[number].withdrawn_today)
          /\ to_print' = to_print \ {number}
    /\ UNCHANGED <<next, today, issued, ever, dayTotal, listed, ledger>>

\* the withdrawals made between two listings are of the largest amount
ListAmounts == {MaxAmount}

NextList ==
    \/ \E i \in OpenInputs : OpenAccountPair(i[1], i[2], i[3])
    \/ \E n \in Numbers : CloseAccount(n)
    \/ \E n \in Numbers, a \in ListAmounts : Withdraw(n, a)
    \/ Tick
    \/ ListAccounts
    \/ screen_list
    \/ screen_list_print
    \/ \E k \in Numbers : ListedDel(k)
    \/ \E k \in Numbers, n \in Numbers : ListedPut(k, n)

SpecList == Init /\ [][NextList]_vars

TypeOK ==
    /\ DOMAIN accounts \subseteq Numbers
    /\ next \in Numbers
    /\ today \in 0 .. MaxDay
    /\ \A n \in DOMAIN accounts : accounts[n].number = n
    /\ to_print \subseteq DOMAIN accounts

\* ---- properties ----

Rejected(op) == op.result # "ok"

\* C1: every registered account has balance >= 0 in every reachable state,
\* whatever sequence of calls (successful or failing) and day changes led to it.
C1_BalanceNonNegative ==
    \A n \in DOMAIN accounts : accounts[n].balance >= 0

\* a withdrawal has just emptied an account, and one larger would have been
\* rejected for insufficient funds
C1_Witness ==
    /\ lastOp.op = "withdraw" /\ lastOp.result = "ok"
    /\ accounts[lastOp.number].balance = 0
    /\ lastOp.arg > 0

\* C2: in the state right after a successful withdraw on an account with
\* daily_limit > 0, withdrawn_today <= daily_limit.
C2_WithdrawnWithinLimit ==
    (lastOp.op = "withdraw" /\ lastOp.result = "ok"
        /\ accounts[lastOp.number].daily_limit > 0)
    => accounts[lastOp.number].withdrawn_today <= accounts[lastOp.number].daily_limit

\* a successful withdrawal has just used up the whole daily limit
C2_Witness ==
    /\ lastOp.op = "withdraw" /\ lastOp.result = "ok"
    /\ accounts[lastOp.number].daily_limit > 0
    /\ accounts[lastOp.number].withdrawn_today = accounts[lastOp.number].daily_limit

\* C3: for an account with daily_limit > 0, the amounts of the successful
\* withdrawals made on the current calendar day (dayTotal) never sum to more
\* than daily_limit.
C3_DayTotalWithinLimit ==
    \A n \in DOMAIN accounts :
        accounts[n].daily_limit > 0 => dayTotal[n] <= accounts[n].daily_limit

\* on a later day, an account that had withdrawn on an earlier day has
\* withdrawn its full limit again
C3_Witness ==
    /\ today > 0
    /\ lastOp.op = "withdraw" /\ lastOp.result = "ok"
    /\ lastOp.new_day /\ lastOp.prev_withdrawn > 0
    /\ accounts[lastOp.number].daily_limit > 0
    /\ dayTotal[lastOp.number] = accounts[lastOp.number].daily_limit

\* C4 as stated: a call that raises leaves every field of every account, the
\* registry and the next-number counter as they were before the call.
C4_FailureChangesNothing ==
    [][Rejected(lastOp') => (accounts' = accounts /\ next' = next)]_vars

\* C4 amended: a call that raises leaves the registry, the counter and every
\* account as they were, except that a withdraw with amount > 0 rejected (for
\* insufficient funds or daily limit) on a day other than last_withdraw_date
\* has set that account's last_withdraw_date to today and withdrawn_today to
\* 0; its balance, daily_limit, number and owner are unchanged.
C4_FailureChangesOnlyRollover ==
    [][Rejected(lastOp') =>
        /\ next' = next
        /\ DOMAIN accounts' = DOMAIN accounts
        /\ \A n \in DOMAIN accounts :
             IF /\ lastOp'.op = "withdraw" /\ lastOp'.number = n
                /\ lastOp'.arg > 0
                /\ accounts[n].last_withdraw_date # today
             THEN /\ accounts'[n].last_withdraw_date = today
                  /\ accounts'[n].withdrawn_today = 0
                  /\ accounts'[n].balance = accounts[n].balance
                  /\ accounts'[n].daily_limit = accounts[n].daily_limit
                  /\ accounts'[n].number = accounts[n].number
                  /\ accounts'[n].owner = accounts[n].owner
             ELSE accounts'[n] = accounts[n]]_vars

\* a withdraw has just been rejected for the daily limit on a new day, on an
\* account that had withdrawn on the earlier day
C4_Witness ==
    /\ lastOp.op = "withdraw" /\ lastOp.result = "DailyLimitExceeded"
    /\ lastOp.new_day /\ lastOp.prev_withdrawn > 0
    /\ accounts[lastOp.number].balance >= lastOp.arg

\* C5: the numbers returned by the successful open_account calls, in call
\* order (issued), are strictly increasing, hence pairwise distinct.
C5_NumbersStrictlyIncreasing ==
    \A i, j \in 1 .. Len(issued) : i < j => issued[i] < issued[j]

\* an account has just been opened after the first account was closed
C5_Witness ==
    /\ lastOp.op = "open_account" /\ lastOp.result = "ok"
    /\ Len(issued) >= 2
    /\ issued[1] \notin DOMAIN accounts

\* C6: the next-number counter is greater than every number registered now
\* or at any earlier time.
C6_NextAboveEveryNumber ==
    \A n \in ever \cup DOMAIN accounts : next > n

\* an account has just been closed: its number is no longer registered but
\* was registered earlier
C6_Witness ==
    /\ lastOp.op = "close_account" /\ lastOp.result = "ok"
    /\ lastOp.number \in ever \ DOMAIN accounts
    /\ Len(issued) = 2

\* C7: a failed open_account leaves the counter and the registry unchanged,
\* and a successful one receives StartingNumber plus the count of the earlier
\* successful ones, whatever failed calls came in between.
C7_FailedOpenConsumesNothing ==
    [][lastOp'.op = "open_account" =>
        IF Rejected(lastOp')
        THEN next' = next /\ accounts' = accounts
        ELSE /\ lastOp'.number = StartingNumber + Len(issued)
             /\ lastOp'.number = next]_vars

\* an open_account has just failed for a negative daily limit after an
\* earlier one succeeded
C7_Witness ==
    /\ lastOp.op = "open_account" /\ lastOp.result = "InvalidLimit"
    /\ Len(issued) = 1
    /\ next = StartingNumber + 1

\* C8: a withdraw made on a day other than last_withdraw_date, with
\* amount > 0, amount <= balance and amount <= daily_limit (or daily_limit = 0),
\* succeeds and leaves withdrawn_today = amount, last_withdraw_date = today.
C8_NewDayWithdrawSeesFreshCounter ==
    [][lastOp'.op = "withdraw" =>
        LET n == lastOp'.number
            amount == lastOp'.arg
        IN (/\ accounts[n].last_withdraw_date # today
            /\ amount > 0
            /\ amount <= accounts[n].balance
            /\ (accounts[n].daily_limit = 0 \/ amount <= accounts[n].daily_limit))
           => /\ lastOp'.result = "ok"
              /\ accounts'[n].withdrawn_today = amount
              /\ accounts'[n].last_withdraw_date = today
              /\ accounts'[n].balance = accounts[n].balance - amount]_vars

\* a withdrawal has just succeeded on the day after the account used up its
\* daily limit
C8_Witness ==
    /\ lastOp.op = "withdraw" /\ lastOp.result = "ok"
    /\ lastOp.new_day
    /\ accounts[lastOp.number].daily_limit > 0
    /\ lastOp.prev_withdrawn = accounts[lastOp.number].daily_limit
    /\ accounts[lastOp.number].withdrawn_today = lastOp.arg

\* C9 as stated: given withdrawn_today > 0, any withdraw call on a later day
\* resets the counter (leaving 0, or the amount when the call succeeds) and
\* sets last_withdraw_date to today, whatever the outcome of the call.
C9_RolloverOnEveryWithdraw ==
    [][lastOp'.op = "withdraw" =>
        LET n == lastOp'.number
        IN (accounts[n].last_withdraw_date # today /\ accounts[n].withdrawn_today > 0)
           => /\ accounts'[n].last_withdraw_date = today
              /\ accounts'[n].withdrawn_today =
                    IF Rejected(lastOp') THEN 0 ELSE lastOp'.arg]_vars

\* C9 amended: given withdrawn_today > 0, a withdraw call with amount > 0 on
\* a later day resets the counter (leaving 0 when the call is rejected for
\* insufficient funds or daily limit, the amount when it succeeds) and sets
\* last_withdraw_date to today; a call rejected because amount <= 0 performs
\* no rollover and leaves the account unchanged.
C9_RolloverOnPositiveWithdraw ==
    [][lastOp'.op = "withdraw" =>
        LET n == lastOp'.number
        IN (accounts[n].last_withdraw_date # today /\ accounts[n].withdrawn_today > 0)
           => IF lastOp'.arg > 0
              THEN /\ accounts'[n].last_withdraw_date = today
                   /\ accounts'[n].withdrawn_today =
                         IF Rejected(lastOp') THEN 0 ELSE lastOp'.arg
              ELSE /\ lastOp'.result = "InvalidAmount"
                   /\ accounts'[n] = accounts[n]]_vars

\* a withdraw has just been rejected for insufficient funds on the day after
\* the account withdrew, and the counter is reset
C9_Witness ==
    /\ lastOp.op = "withdraw" /\ lastOp.result = "InsufficientFunds"
    /\ lastOp.new_day /\ lastOp.prev_withdrawn > 0
    /\ accounts[lastOp.number].withdrawn_today = 0
    /\ accounts[lastOp.number].last_withdraw_date = today

\* C10: render on a day other than last_withdraw_date sets withdrawn_today to
\* 0 and last_withdraw_date to today and, for an account with a limit, reports
\* a remaining allowance equal to daily_limit; on the same day it changes no
\* field; balance, daily_limit, number and owner are unchanged in both cases.
C10_RenderRollsOver ==
    [][lastOp'.op = "render" =>
        LET n == lastOp'.number
        IN /\ accounts'[n].balance = accounts[n].balance
           /\ accounts'[n].daily_limit = accounts[n].daily_limit
           /\ accounts'[n].number = accounts[n].number
           /\ accounts'[n].owner = accounts[n].owner
           /\ IF accounts[n].last_withdraw_date # today
              THEN /\ accounts'[n].withdrawn_today = 0
                   /\ accounts'[n].last_withdraw_date = today
                   /\ accounts[n].daily_limit > 0
                        => lastOp'.carry = accounts[n].daily_limit
              ELSE accounts'[n] = accounts[n]]_vars

\* render has just been called on the day after the account withdrew, and
\* reports the full limit as remaining
C10_Witness ==
    /\ lastOp.op = "render"
    /\ lastOp.new_day /\ lastOp.prev_withdrawn > 0
    /\ accounts[lastOp.number].daily_limit > 0
    /\ lastOp.carry = accounts[lastOp.number].daily_limit
    /\ accounts[lastOp.number].withdrawn_today = 0

\* C11: close_account(number) fails with AccountNotFound when number is not
\* registered and with NonZeroBalance when the account's balance is not
\* exactly zero, removing nothing in both cases; with a zero balance it removes
\* the account, get(number) is then absent, and every other account stays
\* registered and unchanged.
C11_CloseNeedsExactZero ==
    [][lastOp'.op = "close_account" =>
        LET n == lastOp'.number
        IN IF n \notin DOMAIN accounts
           THEN lastOp'.result = "AccountNotFound" /\ accounts' = accounts
           ELSE IF accounts[n].balance # 0
           THEN lastOp'.result = "NonZeroBalance" /\ accounts' = accounts
           ELSE /\ lastOp'.result = "ok"
                /\ get(accounts', n) = NoAccount
                /\ DOMAIN accounts' = DOMAIN accounts \ {n}
                /\ \A m \in DOMAIN accounts \ {n} : accounts'[m] = accounts[m]]_vars

\* an account has just been closed while another one, holding the smallest
\* unit, stays registered
C11_Witness ==
    /\ lastOp.op = "close_account" /\ lastOp.result = "ok"
    /\ \E m \in DOMAIN accounts : m # lastOp.number /\ accounts[m].balance = 1

\* C12: for amount > 0, a withdraw of more than the balance fails with
\* InsufficientFunds even when the amount also exceeds what remains of the
\* daily limit; DailyLimitExceeded is reported only when amount <= balance,
\* daily_limit > 0 and amount > daily_limit - withdrawn_today (the counter
\* taken after the rollover); with daily_limit = 0 it is never reported.
C12_WithdrawCheckOrder ==
    [][(lastOp'.op = "withdraw" /\ lastOp'.arg > 0) =>
        LET n == lastOp'.number
            amount == lastOp'.arg
            acc == accounts[n]
            counter == IF acc.last_withdraw_date # today THEN 0
                       ELSE acc.withdrawn_today
        IN /\ amount > acc.balance => lastOp'.result = "InsufficientFunds"
           /\ lastOp'.result = "DailyLimitExceeded" =>
                 /\ amount <= acc.balance
                 /\ acc.daily_limit > 0
                 /\ amount > acc.daily_limit - counter
           /\ acc.daily_limit = 0 => lastOp'.result # "DailyLimitExceeded"]_vars

\* a withdraw exceeding both the balance and what remains of the daily limit
\* has just been rejected for insufficient funds
C12_Witness ==
    /\ lastOp.op = "withdraw" /\ lastOp.result = "InsufficientFunds"
    /\ accounts[lastOp.number].daily_limit > 0
    /\ lastOp.arg > accounts[lastOp.number].daily_limit
                     - accounts[lastOp.number].withdrawn_today
    /\ lastOp.arg > accounts[lastOp.number].balance

\* C13: deleting or adding an entry in the mapping list_accounts returned
\* changes neither the registry (the numbers get finds, the accounts, the
\* result of a later list_accounts) nor anything but that mapping; and an
\* open_account or close_account of the bank leaves the mapping as it was.
C13_ListAccountsIsSnapshot ==
    [][/\ lastOp'.op \in {"listed_del", "listed_put"} =>
            /\ accounts' = accounts
            /\ \A n \in Numbers : get(accounts', n) = get(accounts, n)
            /\ list_accounts(accounts').map = list_accounts(accounts).map
       /\ (lastOp'.op \in {"open_account", "close_account"} /\ listed.ref # "none") =>
            listed_keys' = listed_keys]_vars

\* the caller has just deleted from its mapping an entry that the registry
\* still has
C13_Witness ==
    /\ lastOp.op = "listed_del"
    /\ lastOp.number \in DOMAIN accounts
    /\ lastOp.number \notin listed_keys

\* C14: a successful open_account returns an account whose number is the
\* counter before the call, whose balance is initial_deposit, whose
\* daily_limit is the limit given, with withdrawn_today = 0 and
\* last_withdraw_date = today; the account is registered under its number,
\* the other accounts are untouched and the counter advances by exactly 1.
C14_OpenAccountEffect ==
    [][(lastOp'.op = "open_account" /\ lastOp'.result = "ok") =>
        LET n == lastOp'.number
        IN /\ n = next
           /\ next' = next + 1
           /\ DOMAIN accounts' = DOMAIN accounts \cup {n}
           /\ accounts'[n].number = n
           /\ accounts'[n].balance = lastOp'.arg
           /\ accounts'[n].daily_limit = lastOp'.carry
           /\ accounts'[n].withdrawn_today = 0
           /\ accounts'[n].last_withdraw_date = today
           /\ \A m \in DOMAIN accounts : accounts'[m] = accounts[m]]_vars

\* the second account has just been opened, on a later day, with an initial
\* deposit and a daily limit
C14_Witness ==
    /\ lastOp.op = "open_account" /\ lastOp.result = "ok"
    /\ lastOp.number = StartingNumber + 1
    /\ lastOp.arg = MaxBalance /\ lastOp.carry = MaxLimit
    /\ today > 0
    /\ accounts[lastOp.number].balance = MaxBalance

\* C15: apply_interest with rate_percent >= 0 succeeds whatever the daily
\* limit and the day's withdrawals, adds exactly balance * rate_percent / 100
\* to the balance and returns that amount; with rate_percent < 0 it fails with
\* InvalidRate and leaves the balance unchanged.
C15_InterestEffect ==
    [][lastOp'.op = "apply_interest" =>
        LET n == lastOp'.number
            rate == lastOp'.arg
        IN IF rate >= 0
           THEN /\ lastOp'.result = "ok"
                /\ 100 * (accounts'[n].balance - accounts[n].balance)
                      = accounts[n].balance * rate
                /\ 100 * lastOp'.carry = accounts[n].balance * rate
           ELSE /\ lastOp'.result = "InvalidRate"
                /\ accounts'[n].balance = accounts[n].balance]_vars

\* interest has just been credited to an account whose daily allowance is
\* used up
C15_Witness ==
    /\ lastOp.op = "apply_interest" /\ lastOp.result = "ok"
    /\ lastOp.carry > 0
    /\ accounts[lastOp.number].daily_limit > 0
    /\ ~lastOp.new_day
    /\ accounts[lastOp.number].withdrawn_today = accounts[lastOp.number].daily_limit

\* C16: a withdraw rejected with DailyLimitExceeded carries daily_limit minus
\* the counter after the rollover (daily_limit itself on the first attempt of
\* a new day), and leaves the balance and today's counter unchanged.
C16_LimitErrorCarriesRemaining ==
    [][(lastOp'.op = "withdraw" /\ lastOp'.result = "DailyLimitExceeded") =>
        LET n == lastOp'.number
            acc == accounts[n]
            counter == IF acc.last_withdraw_date # today THEN 0
                       ELSE acc.withdrawn_today
        IN /\ lastOp'.carry = acc.daily_limit - counter
           /\ acc.last_withdraw_date # today => lastOp'.carry = acc.daily_limit
           /\ accounts'[n].balance = acc.balance
           /\ accounts'[n].withdrawn_today = counter]_vars

\* the first withdraw of a new day has just been rejected for the daily
\* limit, carrying the whole limit although the account withdrew the day before
C16_Witness ==
    /\ lastOp.op = "withdraw" /\ lastOp.result = "DailyLimitExceeded"
    /\ lastOp.new_day /\ lastOp.prev_withdrawn > 0
    /\ lastOp.carry = accounts[lastOp.number].daily_limit

\* C17: deposit and apply_interest change no field but balance, and perform
\* no rollover even on a day other than last_withdraw_date; what remains of
\* the daily limit is the same after as before.
C17_CreditsChangeOnlyBalance ==
    [][lastOp'.op \in {"deposit", "apply_interest"} =>
        LET n == lastOp'.number
        IN /\ accounts'[n] = [accounts[n] EXCEPT !.balance = accounts'[n].balance]
           /\ accounts'[n].daily_limit - accounts'[n].withdrawn_today
                 = accounts[n].daily_limit - accounts[n].withdrawn_today
           /\ \A m \in DOMAIN accounts \ {n} : accounts'[m] = accounts[m]
           /\ next' = next]_vars

\* a deposit has just been credited on the day after the account withdrew,
\* and the counter and the date are still those of the earlier day
C17_Witness ==
    /\ lastOp.op = "deposit" /\ lastOp.result = "ok"
    /\ lastOp.new_day /\ lastOp.prev_withdrawn > 0
    /\ accounts[lastOp.number].withdrawn_today = lastOp.prev_withdrawn
    /\ accounts[lastOp.number].last_withdraw_date # today

\* C18: the balance of every registered account equals its ledger: the
\* amounts successfully deposited (the initial deposit included) plus the
\* interest amounts apply_interest returned minus the amounts successfully
\* withdrawn; failed calls add nothing to the ledger.
C18_LedgerConservation ==
    \A n \in DOMAIN accounts : accounts[n].balance = ledger[n]

\* interest has just been credited to an account that was opened with a
\* deposit and has withdrawn
C18_Witness ==
    /\ lastOp.op = "apply_interest" /\ lastOp.result = "ok"
    /\ lastOp.carry > 0
    /\ lastOp.prev_withdrawn > 0
    /\ ledger[lastOp.number] = MaxBalance

\* C19: no call changes a field of a registered account other than the one it
\* is made on (an open_account or close_account of another number included);
\* number and daily_limit of an account never change; an account leaves the
\* registry only by close_account of its number.
C19_AccountIsolation ==
    [][\A m \in DOMAIN accounts :
        /\ m # lastOp'.number => (m \in DOMAIN accounts' /\ accounts'[m] = accounts[m])
        /\ m \in DOMAIN accounts' =>
              /\ accounts'[m].number = accounts[m].number
              /\ accounts'[m].daily_limit = accounts[m].daily_limit
        /\ m \notin DOMAIN accounts' =>
              (lastOp'.op = "close_account" /\ lastOp'.number = m)]_vars

\* a withdrawal on one account has just rolled its counter over while another
\* registered account still carries the counter and the date of the day before
C19_Witness ==
    /\ lastOp.op = "withdraw" /\ lastOp.result = "ok" /\ lastOp.new_day
    /\ \E m \in DOMAIN accounts :
          /\ m # lastOp.number
          /\ accounts[m].last_withdraw_date # today
          /\ accounts[m].withdrawn_today > 0

====
